---- MODULE Spec2Model ----
(***************************************************************************)
(* LISA: the filter -> classify -> split / aggregate pipeline of           *)
(* src/src/main.rs and its front ends (GUI buttons, command line).         *)
(*                                                                         *)
(* A Rust String is modelled as a sequence of one-character strings, so    *)
(* that substring search, number parsing and number formatting are         *)
(* computed character by character as the library does.                    *)
(***************************************************************************)
EXTENDS Integers, Sequences, FiniteSets, TLC

(***************************************************************************)
(* Bounds of the model.                                                    *)
(***************************************************************************)
MaxRows == 2        \* data rows in the input CSV
MaxList == 2        \* identifiers written in the store-list file
MaxContent == 4     \* characters of a store-list file read by list() alone

(***************************************************************************)
(* Strings                                                                 *)
(***************************************************************************)
NL == "\n"

CR == "\r"

\* str::contains(pat): pat occurs as a contiguous substring of s.
Contains(s, pat) ==
    \E i \in 1..(Len(s) - Len(pat) + 1) : SubSeq(s, i, i + Len(pat) - 1) = pat

RECURSIVE Concat(_)
\* Iterator<Item = &str>::collect::<String>(): the pieces joined, no separator.
Concat(pieces) ==
    IF pieces = <<>> THEN <<>> ELSE Head(pieces) \o Concat(Tail(pieces))

RECURSIVE SplitOn(_, _, _)
\* str::split(sep) for a one-character separator: every piece is kept,
\* the empty ones included; `cur` is the piece being read.
SplitOn(s, sep, cur) ==
    IF s = <<>> THEN << cur >>
    ELSE IF Head(s) = sep THEN << cur >> \o SplitOn(Tail(s), sep, <<>>)
    ELSE SplitOn(Tail(s), sep, Append(cur, Head(s)))

\* A line as str::lines() yields it: without the "\r" that stood directly
\* before its "\n", when `ended` (the line was ended by a "\n").
StripCR(line, ended) ==
    IF ended /\ line # <<>> /\ line[Len(line)] = CR
    THEN SubSeq(line, 1, Len(line) - 1)
    ELSE line

\* str::lines(): split at "\n" or "\r\n"; a final line ending yields no
\* extra line; a "\r" that no "\n" follows stays in its line.
Lines(s) ==
    LET pieces == SplitOn(s, NL, <<>>)
        n == Len(pieces)
        kept == IF pieces[n] = <<>> THEN n - 1 ELSE n
    IN  [i \in 1..kept |-> StripCR(pieces[i], i < n)]

Digits == << "0", "1", "2", "3", "4", "5", "6", "7", "8", "9" >>

IsDigit(c) == \E d \in 1..10 : Digits[d] = c

DigitValue(c) == (CHOOSE d \in 1..10 : Digits[d] = c) - 1

RECURSIVE ParseDigits(_, _)
\* The digit loop of u32::from_str: -1 (no number) at the first character
\* that is no digit. Quantity strings of the model have at most two digits, so the
\* overflow arm of the library loop is never taken and is left out.
ParseDigits(s, acc) ==
    IF s = <<>> THEN acc
    ELSE IF ~IsDigit(Head(s)) THEN -1
    ELSE ParseDigits(Tail(s), acc * 10 + DigitValue(Head(s)))

\* str::parse::<u32>(): an optional leading "+", then at least one digit.
\* A "-" is not accepted for an unsigned type.
\* The result is [ok |-> TRUE, value |-> n] or [ok |-> FALSE, value |-> 0].
ParseU32(s) ==
    LET ds == IF s # <<>> /\ Head(s) = "+" THEN Tail(s) ELSE s
    IN  IF ds = <<>> THEN [ok |-> FALSE, value |-> 0]
        ELSE LET v == ParseDigits(ds, 0)
             IN  IF v = -1 THEN [ok |-> FALSE, value |-> 0]
                 ELSE [ok |-> TRUE, value |-> v]

RECURSIVE U32ToString(_)
\* u32::to_string(): the decimal digits, no sign, no leading zero.
U32ToString(n) ==
    IF n < 10 THEN << Digits[n + 1] >>
    ELSE Append(U32ToString(n \div 10), Digits[(n % 10) + 1])

(***************************************************************************)
(* Rows (csv::StringRecord) and the positions of their fields              *)
(***************************************************************************)
\* Field::get(): the zero-based position of a field of the RFID CSV.
Field_Po == 0
Field_Style == 1
Field_ColorCode == 2
Field_Size == 3
Field_StyleDesc == 4
Field_ColorDesc == 5
Field_Upc == 6
Field_Qty == 8

\* StringRecord::get(i), zero-based.
Get(record, i) == record[i + 1]

\* filter_store(), inner loop: the records whose PO contains `num`, in order.
ScanRecords(records, num) ==
    SelectSeq(records, LAMBDA item : Contains(Get(item, Field_Po), num))

RECURSIVE filter_store_row_major(_, _)
\* A filter whose outer loop runs over the records and whose inner loop
\* runs over the identifiers.
filter_store_row_major(records, list) ==
    IF records = <<>> THEN <<>>
    ELSE [i \in 1..Cardinality({ i \in 1..Len(list) :
                Contains(Get(Head(records), Field_Po), << "-" >> \o list[i]) })
            |-> Head(records)]
         \o filter_store_row_major(Tail(records), list)

RECURSIVE filter_store_plain(_, _)
\* A filter that searches the PO for the bare identifier.
filter_store_plain(records, list) ==
    IF list = <<>> THEN <<>>
    ELSE ScanRecords(records, Head(list)) \o filter_store_plain(records, Tail(list))

RECURSIVE filter_store(_, _)
\* filter_store(): for each identifier of the list in turn, "-" is put in
\* front of it and every record whose PO contains that string is pushed.
filter_store(records, list) ==
    IF list = <<>> THEN <<>>
    ELSE ScanRecords(records, << "-" >> \o Head(list))
         \o filter_store(records, Tail(list))

\* has_rfid(): the style description contains "$".
has_rfid(record) == Contains(Get(record, Field_StyleDesc), << "$" >>)

\* A list() that leaves out the empty tokens.
list_skips_empty(content) ==
    SelectSeq(SplitOn(Concat(Lines(content)), ",", <<>>), LAMBDA t : t # <<>>)

\* list(): the lines of the file joined without separator, then split at ",".
list(content) == SplitOn(Concat(Lines(content)), ",", <<>>)

(***************************************************************************)
(* The box estimate: ((with as f32 + without as f32) / 60.0).ceil()        *)
(***************************************************************************)
\* Labels per box, the divisor of the estimate.
LabelsPerBox == 60

\* Bits of the significand of an f32, the hidden bit included.
F32Precision == 24

RECURSIVE Pow2(_)
Pow2(k) == IF k = 0 THEN 1 ELSE 2 * Pow2(k - 1)

RECURSIVE F32Scale(_, _, _)
\* The k for which n * 2^k / d has exactly F32Precision bits before the
\* binary point: the quotient is then representable as m / 2^k.
F32Scale(n, d, k) ==
    IF n * Pow2(k) >= Pow2(F32Precision - 1) * d THEN k ELSE F32Scale(n, d, k + 1)

\* The f32 quotient n / d, rounded to nearest (ties to even), as the pair
\* [m, k] standing for m / 2^k. Exact for 0 < n / d < 2^F32Precision.
F32Div(n, d) ==
    IF n = 0 THEN [m |-> 0, k |-> 0]
    ELSE LET k == F32Scale(n, d, 0)
             q == (n * Pow2(k)) \div d
             r == (n * Pow2(k)) % d
             m == IF 2 * r > d THEN q + 1
                  ELSE IF 2 * r = d THEN q + (q % 2)
                  ELSE q
         IN  [m |-> m, k |-> k]

\* f32::ceil(): the least integer not below m / 2^k.
F32Ceil(x) == (x.m + Pow2(x.k) - 1) \div Pow2(x.k)

\* An estimate that truncates the quotient and adds one box.
BoxEstimate_truncate_add_one(with_rfid, without_rfid) ==
    ((with_rfid + without_rfid) \div LabelsPerBox) + 1

\* The box estimate as the code computes it. Both counts convert to f32
\* exactly and so does their sum (below 2^24 in the model).
BoxEstimate(with_rfid, without_rfid) ==
    F32Ceil(F32Div(with_rfid + without_rfid, LabelsPerBox))

(***************************************************************************)
(* Records written and aggregated                                          *)
(***************************************************************************)
\* The column names csv::Writer derives from struct Order (PascalCase).
OrderHeader ==
    << "Po", "StyleCode", "ColorCode", "MsrpSize", "StyleDesc", "ColorDesc",
       "Upc", "StoreNum", "Qty" >>

\* An Order whose quantity is zeroed for every has_rfid record, print_all
\* or not.
OrderOf_ignores_print_all(item, printAll) ==
    << Get(item, Field_Po), Get(item, Field_Style), Get(item, Field_ColorCode),
       Get(item, Field_Size), Get(item, Field_StyleDesc),
       Get(item, Field_ColorDesc), Get(item, Field_Upc),
       <<>>,
       IF has_rfid(item) THEN << "0" >> ELSE Get(item, Field_Qty) >>

\* The Order that write_file serializes for `item`, as the record of its
\* nine fields in declaration order: quantity "0" on the has_rfid branch
\* taken when print_all is off, the source quantity on the other branch.
OrderOf(item, printAll) ==
    << Get(item, Field_Po), Get(item, Field_Style), Get(item, Field_ColorCode),
       Get(item, Field_Size), Get(item, Field_StyleDesc),
       Get(item, Field_ColorDesc), Get(item, Field_Upc),
       <<>>,
       IF has_rfid(item) /\ ~printAll THEN << "0" >> ELSE Get(item, Field_Qty) >>

RECURSIVE PartitionOrders_every_record(_, _, _)
\* An inner loop that lacks the comparison of the PO with the store.
PartitionOrders_every_record(recs, store, printAll) ==
    IF recs = <<>> THEN <<>>
    ELSE << OrderOf(Head(recs), printAll) >>
         \o PartitionOrders_every_record(Tail(recs), store, printAll)

RECURSIVE PartitionOrders(_, _, _)
\* write_file(), inner loop for one store: an Order for every record whose
\* PO equals the store, in the order of the records.
PartitionOrders(recs, store, printAll) ==
    IF recs = <<>> THEN <<>>
    ELSE (IF Get(Head(recs), Field_Po) = store
          THEN << OrderOf(Head(recs), printAll) >> ELSE <<>>)
         \o PartitionOrders(Tail(recs), store, printAll)

\* format!("{}.csv", store): the name of the file of a store.
FileName(store) == store \o << ".", "c", "s", "v" >>

\* The HashSet<String> of the POs of the records.
StoreSet(recs) == { Get(recs[i], Field_Po) : i \in 1..Len(recs) }

\* produce_report(), first loop body: the Store built for one record. The
\* quantity of a record for which has_rfid is true goes to qty_without_rfid.
StoreOf(item) ==
    LET qty == ParseU32(Get(item, Field_Qty)).value
    IN  IF has_rfid(item)
        THEN [store_number |-> Get(item, Field_Po),
              qty_with_rfid |-> 0, qty_without_rfid |-> qty]
        ELSE [store_number |-> Get(item, Field_Po),
              qty_with_rfid |-> qty, qty_without_rfid |-> 0]

RECURSIVE SumWith_all_stores(_, _)
\* An accumulation that lacks the comparison of the store numbers.
SumWith_all_stores(ss, store_number) ==
    IF ss = <<>> THEN 0
    ELSE Head(ss).qty_with_rfid + SumWith_all_stores(Tail(ss), store_number)

RECURSIVE SumWith(_, _)
\* produce_report(), inner loop: with_rfid accumulated over the Stores of
\* one store number.
SumWith(ss, store_number) ==
    IF ss = <<>> THEN 0
    ELSE (IF Head(ss).store_number = store_number
          THEN Head(ss).qty_with_rfid ELSE 0) + SumWith(Tail(ss), store_number)

RECURSIVE SumWithout(_, _)
\* produce_report(), inner loop: without_rfid accumulated likewise.
SumWithout(ss, store_number) ==
    IF ss = <<>> THEN 0
    ELSE (IF Head(ss).store_number = store_number
          THEN Head(ss).qty_without_rfid ELSE 0)
         + SumWithout(Tail(ss), store_number)

\* The line println! prints for one store. The format string puts
\* without_rfid after "WITH RFID:" and with_rfid after "WITHOUT RFID:".
StoreLine(store_number, with_rfid, without_rfid) ==
    [store |-> store_number,
     TOTAL |-> with_rfid + without_rfid,
     WITH_RFID |-> without_rfid,
     WITHOUT_RFID |-> with_rfid,
     boxes |-> BoxEstimate(with_rfid, without_rfid)]

\* The Report returned by produce_report(): every field a String.
MakeReport(stores_n, with_rfid, without_rfid) ==
    [num_stores |-> U32ToString(stores_n),
     total_labels |-> U32ToString(with_rfid + without_rfid),
     with_rfid |-> U32ToString(with_rfid),
     without_rfid |-> U32ToString(without_rfid),
     boxes |-> U32ToString(BoxEstimate(with_rfid, without_rfid))]

(***************************************************************************)
(* Inputs of a run                                                         *)
(***************************************************************************)
BoundedSeq(S, n) == UNION { [1..k -> S] : k \in 0..n }

Row(po, style_desc, color_desc, store_num, qty) ==
    << po, << "s" >>, << "c" >>, << "m" >>, style_desc, color_desc, << "u" >>,
       store_num, qty >>

PO_X014 == << "X", "-", "0", "1", "4" >>
PO_PS1 == << "P", "-", "S", "1" >>
PO_1140 == << "1", "1", "4", "0" >>
PO_S1 == << "S", "1" >>

\* The data rows an input CSV is made of: two stores that the list can
\* select, a PO holding "014" without the separator, a PO equal to an
\* identifier; "$" at the end of, inside, and outside the style
\* description; quantities 0, 1, 60, signed, and not a number.
RowPool ==
    { Row(PO_X014, << "d", "$" >>, << "k" >>, <<>>, << "6", "0" >>),
      Row(PO_X014, << "d" >>, << "k", "$" >>, << "7" >>, << "+", "1" >>),
      Row(PO_PS1, << "$", "d" >>, << "k" >>, <<>>, << "1" >>),
      Row(PO_PS1, << "d" >>, << "k" >>, << "7" >>, << "0" >>),
      Row(PO_1140, << "d" >>, << "k" >>, <<>>, << "-", "1" >>),
      Row(PO_S1, << "d", "$" >>, << "k" >>, <<>>, << "6", "0" >>),
      Row(PO_X014, << "d" >>, << "k" >>, <<>>, << "x" >>) }

\* The identifiers as written in a store-list file: one is followed by a
\* line break, one is empty (a comma at either end of the file, or two in
\* a row).
WrittenIdents ==
    { << "0", "1", "4" >>, <<>>, << "S", "1", NL >> }

RECURSIVE JoinComma(_)
JoinComma(tokens) ==
    IF tokens = <<>> THEN <<>>
    ELSE IF Len(tokens) = 1 THEN Head(tokens)
    ELSE Head(tokens) \o << "," >> \o JoinComma(Tail(tokens))

\* A file is readable with some content, or cannot be opened.
ListFiles ==
    { [readable |-> TRUE, content |-> JoinComma(ts)] :
        ts \in BoundedSeq(WrittenIdents, MaxList) }
    \cup { [readable |-> FALSE, content |-> <<>>] }

InputFiles ==
    { [readable |-> TRUE, rows |-> rs] : rs \in BoundedSeq(RowPool, MaxRows) }
    \cup { [readable |-> FALSE, rows |-> <<>>] }

(***************************************************************************)
(* State                                                                   *)
(***************************************************************************)
VARIABLES
    mode,               \* "split": produce_po_files, "report": produce_report
    print_all,          \* the print_all argument of produce_po_files
    listFile,           \* the file at list_path
    inputFile,          \* the file at read_path, its header line left out
    pc,                 \* the statement the run is at
    store_list,         \* Vec<String> returned by list()
    records,            \* Vec<StringRecord> returned by read_file()
    results,            \* Vec<StringRecord> returned by filter_store()
    pending,            \* the stores the HashSet iteration has yet to yield
    current,            \* << store >> while the file of a store is open
    disk,               \* the files under the destination: name -> content
    created,            \* the stores in the order their files were created
    write_result,       \* what write_file returned: "none", "ok", "err"
    stores,             \* Vec<Store> of produce_report
    printed,            \* the per-store lines printed so far
    totals_printed,     \* the totals block has been printed
    total_with_rfid,
    total_without_rfid,
    total_stores,
    report,             \* << Report >> once produce_report returned Ok
    outcome,            \* "running", "ok", "err" (Err returned), "panic"
    args,               \* struct Cli: the command line as given
    gui_input,          \* Gui.input: << >> for None, << path >> for Some
    gui_output,         \* Gui.output
    gui_list,           \* Gui.list
    front_pc,           \* "cli", "gui", "pipeline", "exit"; "off" in Spec
    entry,              \* the entry being served: "cli", "run", "reports", "none"
    call,               \* << the pipeline call made by the entry >>, if any
    reported,           \* the fields the rejection names as missing
    front_outcome,      \* "running", "usage", "conflict", "panic", "exit0", "exit1"
    picked,             \* history: per kind, what the last file dialog returned
    had_path,           \* history: the kinds that held a path at some time
    run,                \* history: 1 in the first run, 2 in a repeated run
    first_order         \* history: the order the first run visited the stores in

frontVars ==
    << args, gui_input, gui_output, gui_list, front_pc, entry, call, reported,
       front_outcome, picked, had_path >>

twinVars == << run, first_order >>

vars ==
    << frontVars, twinVars, mode, print_all, listFile, inputFile, pc, store_list, records, results,
       pending, current, disk, created, write_result, stores, printed,
       totals_printed, total_with_rfid, total_without_rfid, total_stores,
       report, outcome >>

inputVars == << mode, print_all, listFile, inputFile >>
splitVars == << current, disk, created, write_result >>
reportVars ==
    << stores, printed, totals_printed, total_with_rfid, total_without_rfid,
       total_stores, report >>

NoFiles == [name \in {} |-> <<>>]

NoArgs ==
    [input |-> <<>>, output |-> <<>>, list |-> <<>>, printall |-> FALSE,
     report |-> FALSE, gui |-> FALSE]

\* The front end as the pipeline specification holds it: not modelled.
\* Gui::default(): no dialog has returned anything.
NonePicked == [kind \in { "Input", "Output", "List" } |-> <<>>]

FrontOff ==
    /\ args = NoArgs
    /\ gui_input = <<>>
    /\ gui_output = <<>>
    /\ gui_list = <<>>
    /\ front_pc = "off"
    /\ entry = "none"
    /\ call = <<>>
    /\ reported = {}
    /\ front_outcome = "running"
    /\ picked = NonePicked
    /\ had_path = {}

\* No run has been completed yet.
FirstRun ==
    /\ run = 1
    /\ first_order = <<>>

Init ==
    /\ FrontOff
    /\ FirstRun
    /\ mode \in { "split", "report" }
    /\ print_all \in (IF mode = "split" THEN BOOLEAN ELSE { FALSE })
    /\ listFile \in ListFiles
    /\ inputFile \in InputFiles
    /\ pc = "list"
    /\ store_list = <<>>
    /\ records = <<>>
    /\ results = <<>>
    /\ pending = {}
    /\ current = <<>>
    /\ disk = NoFiles
    /\ created = <<>>
    /\ write_result = "none"
    /\ stores = <<>>
    /\ printed = <<>>
    /\ totals_printed = FALSE
    /\ total_with_rfid = 0
    /\ total_without_rfid = 0
    /\ total_stores = 0
    /\ report = <<>>
    /\ outcome = "running"

(***************************************************************************)
(* produce_po_files / produce_report: the three common steps               *)
(***************************************************************************)
\* list(list_path): the tokens of the file.
ListStep ==
    /\ pc = "list"
    /\ listFile.readable
    /\ store_list' = list(listFile.content)
    /\ pc' = "read"
    /\ UNCHANGED << twinVars, frontVars, inputVars, records, results, pending, splitVars, reportVars, outcome >>

\* list(list_path): read_to_string fails and expect() panics.
ListPanics ==
    /\ pc = "list"
    /\ ~listFile.readable
    /\ pc' = "done"
    /\ outcome' = "panic"
    /\ UNCHANGED << twinVars, frontVars, inputVars, store_list, records, results, pending, splitVars, reportVars >>

\* read_file(read_path)?: every record of the file, in order.
ReadFile ==
    /\ pc = "read"
    /\ inputFile.readable
    /\ records' = inputFile.rows
    /\ pc' = "filter"
    /\ UNCHANGED << twinVars, frontVars, inputVars, store_list, results, pending, splitVars, reportVars, outcome >>

\* read_file(read_path)?: File::open fails and the error is returned.
ReadFileFails ==
    /\ pc = "read"
    /\ ~inputFile.readable
    /\ pc' = "done"
    /\ outcome' = "err"
    /\ UNCHANGED << twinVars, frontVars, inputVars, store_list, records, results, pending, splitVars, reportVars >>

\* filter_store(results, store_list)?
FilterStore ==
    /\ pc = "filter"
    /\ results' = filter_store(records, store_list)
    /\ pc' = IF mode = "split" THEN "write" ELSE "aggregate"
    /\ UNCHANGED << twinVars, frontVars, inputVars, store_list, records, pending, splitVars, reportVars, outcome >>

(***************************************************************************)
(* write_file, called by produce_po_files                                  *)
(***************************************************************************)
\* write_file(): the HashSet of the POs of the records is collected.
WriteStart ==
    /\ pc = "write"
    /\ pending' = StoreSet(results)
    /\ pc' = "partition"
    /\ UNCHANGED << twinVars, frontVars, inputVars, store_list, records, results, splitVars,
                    reportVars, outcome >>

\* The HashSet iteration yields `store` (in no order the program fixes)
\* and File::create makes its file, empty.
CreateFile(store) ==
    /\ pc = "partition"
    /\ current = <<>>
    /\ store \in pending
    /\ current' = << store >>
    /\ disk' = (FileName(store) :> [header |-> <<>>, rows |-> <<>>]) @@ disk
    /\ created' = Append(created, store)
    /\ UNCHANGED << twinVars, frontVars, inputVars, pc, store_list, records, results, pending,
                    write_result, reportVars, outcome >>

\* File::create fails: `?` returns the error from write_file, and
\* produce_po_files panics on the Err arm of its match.
CreateFileFails(store) ==
    /\ pc = "partition"
    /\ current = <<>>
    /\ store \in pending
    /\ write_result' = "err"
    /\ outcome' = "panic"
    /\ pc' = "done"
    /\ UNCHANGED << twinVars, frontVars, inputVars, store_list, records, results, pending, current,
                    disk, created, reportVars >>

\* The inner loop serializes an Order for every record of the open store,
\* the header before the first, and flush() succeeds; the writer is dropped.
WriteRecords ==
    /\ pc = "partition"
    /\ current # <<>>
    /\ LET store == current[1]
       IN  /\ disk' = [disk EXCEPT ![FileName(store)] =
                          [header |-> OrderHeader,
                           rows |-> PartitionOrders(results, store, print_all)]]
           /\ pending' = pending \ { store }
    /\ current' = <<>>
    /\ UNCHANGED << twinVars, frontVars, inputVars, pc, store_list, records, results, created,
                    write_result, reportVars, outcome >>

\* serialize() or flush() fails after n whole records reached the file:
\* write_file returns the error and produce_po_files panics.
WriteRecordsFails(n) ==
    /\ pc = "partition"
    /\ current # <<>>
    /\ LET store == current[1]
           orders == PartitionOrders(results, store, print_all)
       IN  /\ n < Len(orders)
           /\ disk' = [disk EXCEPT ![FileName(store)] =
                          [header |-> IF n = 0 THEN <<>> ELSE OrderHeader,
                           rows |-> SubSeq(orders, 1, n)]]
    /\ write_result' = "err"
    /\ outcome' = "panic"
    /\ pc' = "done"
    /\ UNCHANGED << twinVars, frontVars, inputVars, store_list, records, results, pending, current,
                    created, reportVars >>

\* The iteration is over: write_file returns Ok(()) and so does
\* produce_po_files.
WriteDone ==
    /\ pc = "partition"
    /\ current = <<>>
    /\ pending = {}
    /\ write_result' = "ok"
    /\ outcome' = "ok"
    /\ pc' = "done"
    /\ UNCHANGED << twinVars, frontVars, inputVars, store_list, records, results, pending, current,
                    disk, created, reportVars >>

(***************************************************************************)
(* produce_report                                                          *)
(***************************************************************************)
\* A quantity check in the manner of parse().unwrap_or(0): never an error.
QtyParses_unwrap_or_zero(item) == TRUE

\* parse() of the quantity field returns Ok.
QtyParses(item) == ParseU32(Get(item, Field_Qty)).ok

\* The first loop: a Store for every filtered record; then the HashSet of
\* the POs is collected.
BuildStores ==
    /\ pc = "aggregate"
    /\ \A i \in 1..Len(results) : QtyParses(results[i])
    /\ stores' = [i \in 1..Len(results) |-> StoreOf(results[i])]
    /\ pending' = StoreSet(results)
    /\ pc' = "report"
    /\ UNCHANGED << twinVars, frontVars, inputVars, store_list, records, results, splitVars, printed,
                    totals_printed, total_with_rfid, total_without_rfid,
                    total_stores, report, outcome >>

\* The first loop: parse()? returns the error at the first quantity that
\* is no u32.
BuildStoresFails ==
    /\ pc = "aggregate"
    /\ \E i \in 1..Len(results) : ~QtyParses(results[i])
    /\ outcome' = "err"
    /\ pc' = "done"
    /\ UNCHANGED << twinVars, frontVars, inputVars, store_list, records, results, pending, splitVars,
                    reportVars >>

\* The second loop, one store number the HashSet iteration yields: its two
\* sums, its printed line, and the running totals.
ReportStore(store_number) ==
    /\ pc = "report"
    /\ store_number \in pending
    /\ LET with_rfid == SumWith(stores, store_number)
           without_rfid == SumWithout(stores, store_number)
       IN  /\ printed' = Append(printed, StoreLine(store_number, with_rfid, without_rfid))
           /\ total_with_rfid' = total_with_rfid + with_rfid
           /\ total_without_rfid' = total_without_rfid + without_rfid
    /\ total_stores' = total_stores + 1
    /\ pending' = pending \ { store_number }
    /\ UNCHANGED << twinVars, frontVars, inputVars, pc, store_list, records, results, splitVars,
                    stores, totals_printed, report, outcome >>

\* The totals block is printed and the Report returned.
ReportDone ==
    /\ pc = "report"
    /\ pending = {}
    /\ totals_printed' = TRUE
    /\ report' = << MakeReport(total_stores, total_with_rfid, total_without_rfid) >>
    /\ outcome' = "ok"
    /\ pc' = "done"
    /\ UNCHANGED << twinVars, frontVars, inputVars, store_list, records, results, pending, splitVars,
                    stores, printed, total_with_rfid, total_without_rfid,
                    total_stores >>

Next ==
    \/ ListStep
    \/ ListPanics
    \/ ReadFile
    \/ ReadFileFails
    \/ FilterStore
    \/ WriteStart
    \/ \E store \in pending : CreateFile(store)
    \/ \E store \in pending : CreateFileFails(store)
    \/ WriteRecords
    \/ \E n \in 0..MaxRows * MaxList : WriteRecordsFails(n)
    \/ WriteDone
    \/ BuildStores
    \/ BuildStoresFails
    \/ \E store_number \in pending : ReportStore(store_number)
    \/ ReportDone

Spec == Init /\ [][Next]_vars

(***************************************************************************)
(* The front ends: struct Cli and run_app, struct Gui and its buttons.     *)
(* The pipeline they call is a single step here, with any of its outcomes. *)
(***************************************************************************)
pipelineVars ==
    << mode, print_all, listFile, inputFile, pc, store_list, records, results,
       pending, current, disk, created, write_result, stores, printed,
       totals_printed, total_with_rfid, total_without_rfid, total_stores,
       report, outcome, run, first_order >>

\* The pipeline as the front-end specification holds it: not started.
PipelineOff ==
    /\ FirstRun
    /\ mode = "split"
    /\ print_all = FALSE
    /\ listFile = [readable |-> FALSE, content |-> <<>>]
    /\ inputFile = [readable |-> FALSE, rows |-> <<>>]
    /\ pc = "off"
    /\ store_list = <<>>
    /\ records = <<>>
    /\ results = <<>>
    /\ pending = {}
    /\ current = <<>>
    /\ disk = NoFiles
    /\ created = <<>>
    /\ write_result = "none"
    /\ stores = <<>>
    /\ printed = <<>>
    /\ totals_printed = FALSE
    /\ total_with_rfid = 0
    /\ total_without_rfid = 0
    /\ total_stores = 0
    /\ report = <<>>
    /\ outcome = "running"

\* The paths a file dialog or the command line can give.
Paths == { "p1", "p2" }

\* Option<PathBuf>: << >> is None, << p >> is Some(p).
OptionPath == { <<>> } \cup { << p >> : p \in Paths }

\* The command lines: each option given or not, each flag set or not.
CommandLines ==
    [input : { <<>>, << "p1" >> }, output : { <<>>, << "p1" >> },
     list : { <<>>, << "p2" >> }, printall : BOOLEAN, report : BOOLEAN,
     gui : BOOLEAN]

InitFront ==
    /\ PipelineOff
    /\ args \in CommandLines
    /\ gui_input = <<>>
    /\ gui_output = <<>>
    /\ gui_list = <<>>
    /\ front_pc = "cli"
    /\ entry = "cli"
    /\ call = <<>>
    /\ reported = {}
    /\ front_outcome = "running"
    /\ picked = NonePicked
    /\ had_path = {}

\* struct Cli: `gui` is exclusive, `report` conflicts with `printall`.
CliConflict(a) ==
    \/ a.gui /\ (a.input # <<>> \/ a.output # <<>> \/ a.list # <<>>
                    \/ a.printall \/ a.report)
    \/ a.report /\ a.printall

\* struct Cli: `input` and `list` are required unless `gui` is present,
\* `output` unless `gui` or `report` is.
CliMissing(a) ==
    { f \in { "input" } : a.input = <<>> /\ ~a.gui }
    \cup { f \in { "list" } : a.list = <<>> /\ ~a.gui }
    \cup { f \in { "output" } : a.output = <<>> /\ ~a.gui /\ ~a.report }

\* Option::unwrap_or_default() of a path: the empty path for None.
UnwrapOrDefault(opt) == IF opt = <<>> THEN "" ELSE opt[1]

PoFilesCall(list_path, read_path, output_path, printAll) ==
    [fn |-> "produce_po_files", list_path |-> list_path, read_path |-> read_path,
     output_path |-> << output_path >>, print_all |-> printAll]

ReportCall(list_path, read_path) ==
    [fn |-> "produce_report", list_path |-> list_path, read_path |-> read_path,
     output_path |-> <<>>, print_all |-> FALSE]

\* run_app(): Cli::parse() ends the process with a usage error that names
\* the arguments in conflict or the required arguments missing; otherwise
\* the GUI is run, or report mode panics as unavailable, or
\* produce_po_files is called.
RunApp ==
    /\ front_pc = "cli"
    /\ IF CliConflict(args) THEN
           /\ front_outcome' = "conflict"
           /\ front_pc' = "exit"
           /\ UNCHANGED << call, reported >>
       ELSE IF CliMissing(args) # {} THEN
           /\ front_outcome' = "usage"
           /\ reported' = CliMissing(args)
           /\ front_pc' = "exit"
           /\ UNCHANGED call
       ELSE IF args.gui THEN
           /\ front_pc' = "gui"
           /\ UNCHANGED << call, reported, front_outcome >>
       ELSE IF args.report THEN
           /\ front_outcome' = "panic"
           /\ front_pc' = "exit"
           /\ UNCHANGED << call, reported >>
       ELSE
           /\ call' = << PoFilesCall(UnwrapOrDefault(args.list),
                                     UnwrapOrDefault(args.input),
                                     UnwrapOrDefault(args.output),
                                     args.printall) >>
           /\ front_pc' = "pipeline"
           /\ UNCHANGED << reported, front_outcome >>
    /\ entry' = IF ~CliConflict(args) /\ CliMissing(args) = {} /\ args.gui
                THEN "none" ELSE entry
    /\ UNCHANGED << args, gui_input, gui_output, gui_list, picked, had_path, pipelineVars >>

\* A put_path that keeps the stored path when the dialog was cancelled.
put_path_keeps_selection(path, kind) ==
    /\ gui_input' = IF kind = "Input" /\ path # <<>> THEN path ELSE gui_input
    /\ gui_output' = IF kind = "Output" /\ path # <<>> THEN path ELSE gui_output
    /\ gui_list' = IF kind = "List" /\ path # <<>> THEN path ELSE gui_list

\* Gui::put_path(): the path of the given kind is overwritten, by None
\* when the dialog was cancelled.
put_path(path, kind) ==
    /\ gui_input' = IF kind = "Input" THEN path ELSE gui_input
    /\ gui_output' = IF kind = "Output" THEN path ELSE gui_output
    /\ gui_list' = IF kind = "List" THEN path ELSE gui_list

\* An "Input", "Output" or "List" button: the file dialog returns a path,
\* or None when cancelled, and put_path stores it.
PickPath(path, kind) ==
    /\ front_pc = "gui"
    /\ put_path(path, kind)
    /\ picked' = [picked EXCEPT ![kind] = path]
    /\ had_path' = IF path # <<>> THEN had_path \cup { kind } ELSE had_path
    /\ UNCHANGED << args, front_pc, entry, call, reported, front_outcome,
                    pipelineVars >>

\* The "Run" button: the first of input, output, list that is None is
\* reported in a message box and the handler panics; with all three set
\* produce_po_files is called, print_all false.
ClickRun ==
    /\ front_pc = "gui"
    /\ entry' = "run"
    /\ IF gui_input = <<>> THEN
           /\ reported' = { "input" }
           /\ front_outcome' = "panic"
           /\ front_pc' = "exit"
           /\ call' = <<>>
       ELSE IF gui_output = <<>> THEN
           /\ reported' = { "output" }
           /\ front_outcome' = "panic"
           /\ front_pc' = "exit"
           /\ call' = <<>>
       ELSE IF gui_list = <<>> THEN
           /\ reported' = { "list" }
           /\ front_outcome' = "panic"
           /\ front_pc' = "exit"
           /\ call' = <<>>
       ELSE
           /\ call' = << PoFilesCall(gui_list[1], gui_input[1], gui_output[1], FALSE) >>
           /\ reported' = {}
           /\ front_pc' = "pipeline"
           /\ UNCHANGED front_outcome
    /\ UNCHANGED << args, gui_input, gui_output, gui_list, picked, had_path, pipelineVars >>

\* The "Run Reports" button: unwrap() of the list path, then of the input
\* path, panics on None without a message box; with both set
\* produce_report is called.
ClickRunReports ==
    /\ front_pc = "gui"
    /\ entry' = "reports"
    /\ reported' = {}
    /\ IF gui_list = <<>> \/ gui_input = <<>> THEN
           /\ front_outcome' = "panic"
           /\ front_pc' = "exit"
           /\ call' = <<>>
       ELSE
           /\ call' = << ReportCall(gui_list[1], gui_input[1]) >>
           /\ front_pc' = "pipeline"
           /\ UNCHANGED front_outcome
    /\ UNCHANGED << args, gui_input, gui_output, gui_list, picked, had_path, pipelineVars >>

\* The pipeline call ends: with Ok or Err the GUI goes on (the buttons
\* discard the result) and the command line exits with status 0 or 1; a
\* panic ends the process.
PipelineEnds(result) ==
    /\ front_pc = "pipeline"
    /\ IF result = "panic" THEN
           /\ front_outcome' = "panic"
           /\ front_pc' = "exit"
           /\ UNCHANGED << entry, call >>
       ELSE IF entry = "cli" THEN
           /\ front_outcome' = IF result = "ok" THEN "exit0" ELSE "exit1"
           /\ front_pc' = "exit"
           /\ UNCHANGED << entry, call >>
       ELSE
           /\ front_pc' = "gui"
           /\ entry' = "none"
           /\ call' = <<>>
           /\ UNCHANGED front_outcome
    /\ UNCHANGED << args, gui_input, gui_output, gui_list, picked, had_path, reported, pipelineVars >>

NextFront ==
    \/ RunApp
    \/ \E path \in OptionPath : \E kind \in { "Input", "Output", "List" } :
          PickPath(path, kind)
    \/ ClickRun
    \/ ClickRunReports
    \/ \E result \in { "ok", "err", "panic" } : PipelineEnds(result)

SpecFront == InitFront /\ [][NextFront]_vars

(***************************************************************************)
(* Properties                                                              *)
(***************************************************************************)
\* filter_store has returned: `results` holds the filtered records.
Filtered == pc \notin { "list", "read", "filter" }

\* t occurs in s between some two cut points.
HasInfix(s, t) ==
    \E a \in 0..Len(s) : \E b \in a..Len(s) : SubSeq(s, a + 1, b) = t

Key(row) == row[1]

\* Identifier i of the list selects record j under the separator rule.
SepMatch(i, j) == HasInfix(Key(records[j]), << "-" >> \o store_list[i])

\* Identifier i of the list occurs anywhere in the key of record j.
PlainMatch(i, j) == HasInfix(Key(records[j]), store_list[i])

SepMatches ==
    { p \in (1..Len(store_list)) \X (1..Len(records)) : SepMatch(p[1], p[2]) }

\* Position of the pair p among the matching pairs, list position first.
RankOf(p) ==
    1 + Cardinality({ q \in SepMatches :
                        q[1] < p[1] \/ (q[1] = p[1] /\ q[2] < p[2]) })

Count(seq, x) == Cardinality({ k \in 1..Len(seq) : seq[k] = x })

\* C1: the output of filter_store is, identifier by identifier in list
\* order (duplicates included), the records whose key contains "-" followed
\* by the identifier, each group in the original order of the records; so
\* "014" does not select key "1140" and does select "X-014".
C1_FilterIdentifierMajor ==
    Filtered =>
        /\ Len(results) = Cardinality(SepMatches)
        /\ \A p \in SepMatches : results[RankOf(p)] = records[p[2]]
        /\ \A j \in 1..Len(records) :
              store_list = << << "0", "1", "4" >> >> =>
                  /\ Key(records[j]) = PO_X014 => Count(results, records[j]) > 0
                  /\ Key(records[j]) = PO_1140 => Count(results, records[j]) = 0

\* C1 witness: "014" is listed twice, the records are one of key "1140" and
\* one of key "X-014", and the output is the latter twice.
C1_Witness ==
    /\ Filtered
    /\ store_list = << << "0", "1", "4" >>, << "0", "1", "4" >> >>
    /\ Len(records) = 2
    /\ Key(records[1]) = PO_1140
    /\ Key(records[2]) = PO_X014
    /\ results = << records[2], records[2] >>

\* C2 as stated: only rows whose key contains a listed identifier as a
\* substring are output, and every row whose key contains a listed
\* identifier as a substring (a key equal to it included) is output once per
\* such occurrence in the list.
C2_PlainSubstring ==
    Filtered =>
        /\ \A k \in 1..Len(results) :
              \E i \in 1..Len(store_list) : HasInfix(Key(results[k]), store_list[i])
        /\ \A j \in 1..Len(records) :
              Count(results, records[j]) =
                  Count(records, records[j])
                  * Cardinality({ i \in 1..Len(store_list) : PlainMatch(i, j) })

\* C2 amended: only rows whose key contains "-" followed by a listed
\* identifier are output, every such row once per occurrence in the list of
\* an identifier it contains after a "-"; a key equal to a listed identifier
\* is not selected by it.
C2_SeparatorSubstring ==
    Filtered =>
        /\ \A k \in 1..Len(results) :
              \E i \in 1..Len(store_list) :
                  HasInfix(Key(results[k]), << "-" >> \o store_list[i])
        /\ \A j \in 1..Len(records) :
              Count(results, records[j]) =
                  Count(records, records[j])
                  * Cardinality({ i \in 1..Len(store_list) : SepMatch(i, j) })
        /\ \A j \in 1..Len(records) :
              (\A i \in 1..Len(store_list) :
                  HasInfix(Key(records[j]), store_list[i])
                      => Key(records[j]) = store_list[i])
                  => Count(results, records[j]) = 0

\* C2 witness: "S1" is listed, a record of key "S1" is not output and a
\* record of key "P-S1" is.
C2_Witness ==
    /\ Filtered
    /\ \E i \in 1..Len(store_list) : store_list[i] = << "S", "1" >>
    /\ Len(records) = 2
    /\ Key(records[1]) = PO_S1
    /\ Key(records[2]) = PO_PS1
    /\ results # <<>>
    /\ \A k \in 1..Len(results) : results[k] = records[2]

\* The filtered records of one store, in order.
SourceRows(store) == SelectSeq(results, LAMBDA r : Key(r) = store)

\* The style description (position 4) holds the marker.
Tagged(row) == \E i \in 1..Len(row[5]) : row[5][i] = "$"

\* Every (store, position) whose record is on disk.
Emitted ==
    { e \in StoreSet(results) \X (1..Len(results)) :
        /\ FileName(e[1]) \in DOMAIN disk
        /\ e[2] <= Len(disk[FileName(e[1])].rows) }

EmittedOrder(e) == disk[FileName(e[1])].rows[e[2]]

EmittedSource(e) == SourceRows(e[1])[e[2]]

\* C3 as stated: in every emitted record StoreNum is empty, fields 0-6 are
\* those of the source row, and Qty is "0" exactly when the source row is
\* tagged and print_all is false, the source quantity in every other case.
C3_QtyZeroExactlyWhenTagged ==
    \A e \in Emitted :
        LET o == EmittedOrder(e)
            r == EmittedSource(e)
        IN  /\ o[8] = <<>>
            /\ \A f \in 1..7 : o[f] = r[f]
            /\ (o[9] = << "0" >>) <=> (Tagged(r) /\ ~print_all)
            /\ ~(Tagged(r) /\ ~print_all) => o[9] = r[9]

\* C3 amended: in every emitted record StoreNum is empty, fields 0-6 are
\* those of the source row, and Qty is "0" when the source row is tagged and
\* print_all is false, the source quantity verbatim in every other case
\* (which is "0" too when the source quantity is "0").
C3_QtyZeroWhenTagged ==
    \A e \in Emitted :
        LET o == EmittedOrder(e)
            r == EmittedSource(e)
        IN  /\ o[8] = <<>>
            /\ \A f \in 1..7 : o[f] = r[f]
            /\ o[9] = IF Tagged(r) /\ ~print_all THEN << "0" >> ELSE r[9]

\* C3 witness: write_file returned Ok with print_all off, having emitted a
\* tagged row of quantity "60" with Qty "0" and an untagged row whose own
\* quantity is "0", its StoreNum "7" emptied.
C3_Witness ==
    /\ write_result = "ok"
    /\ ~print_all
    /\ \E e \in Emitted :
          /\ Tagged(EmittedSource(e))
          /\ EmittedSource(e)[9] = << "6", "0" >>
          /\ EmittedOrder(e)[9] = << "0" >>
    /\ \E e \in Emitted :
          /\ ~Tagged(EmittedSource(e))
          /\ EmittedSource(e)[8] = << "7" >>
          /\ EmittedSource(e)[9] = << "0" >>
          /\ EmittedOrder(e)[9] = << "0" >>

\* C4: once write_file has returned Ok there is exactly one file
\* <key>.csv for each distinct key of the filtered rows, each created once,
\* and no other file (none when nothing was filtered); the file of key k
\* holds one record per filtered row of key k, in the order of the filtered
\* rows, and no record of another key.
C4_OneFilePerKey ==
    write_result = "ok" =>
        /\ DOMAIN disk = { k \o << ".", "c", "s", "v" >> : k \in StoreSet(results) }
        /\ Len(created) = Cardinality(StoreSet(results))
        /\ { created[n] : n \in 1..Len(created) } = StoreSet(results)
        /\ results = <<>> => DOMAIN disk = {}
        /\ \A k \in StoreSet(results) :
              LET rows == disk[k \o << ".", "c", "s", "v" >>].rows
              IN  /\ Len(rows) = Len(SourceRows(k))
                  /\ \A n \in 1..Len(rows) :
                        /\ rows[n][1] = k
                        /\ \A f \in 1..7 : rows[n][f] = SourceRows(k)[n][f]

\* C4 witness: the filtered rows are of two keys, in the order P-S1 then
\* X-014, and write_file returned Ok having written the two files.
C4_Witness ==
    /\ write_result = "ok"
    /\ Len(results) = 2
    /\ Key(results[1]) = PO_PS1
    /\ Key(results[2]) = PO_X014
    /\ Cardinality(DOMAIN disk) = 2
    /\ \A name \in DOMAIN disk : Len(disk[name].rows) = 1

RECURSIVE SumF(_, _)
\* The sum of f over the finite set S of its arguments.
SumF(f, S) ==
    IF S = {} THEN 0
    ELSE LET x == CHOOSE x \in S : TRUE IN f[x] + SumF(f, S \ { x })

RECURSIVE Dec(_)
\* The number a text of decimal digits (after an optional "+") denotes.
Dec(s) ==
    IF s = <<>> THEN 0
    ELSE IF s[1] = "+" THEN Dec(Tail(s))
    ELSE 10 * Dec(SubSeq(s, 1, Len(s) - 1)) + DigitValue(s[Len(s)])

\* s is an optional "+" followed by one or more decimal digits.
IsU32Text(s) ==
    LET ds == IF s # <<>> /\ s[1] = "+" THEN Tail(s) ELSE s
    IN  /\ ds # <<>>
        /\ \A i \in 1..Len(ds) :
              ds[i] \in { "0", "1", "2", "3", "4", "5", "6", "7", "8", "9" }

\* The quantity of filtered row i when the row is tagged (or not), else 0.
QtyIf(i, tagged) ==
    IF Tagged(results[i]) = tagged THEN Dec(results[i][9]) ELSE 0

\* C5 as stated: each filtered row adds its quantity to one of the two
\* totals and zero to the other; the Report's with-RFID total is the sum of
\* the quantities of the rows for which has_rfid is true and its
\* without-RFID total the sum for the rows for which it is false.
C5_TaggedTotalCountsTaggedRows ==
    report # <<>> =>
        /\ \A i \in 1..Len(stores) :
              { stores[i].qty_with_rfid, stores[i].qty_without_rfid }
                  = { 0, Dec(results[i][9]) }
        /\ Dec(report[1].with_rfid)
              = SumF([i \in 1..Len(results) |-> QtyIf(i, TRUE)], 1..Len(results))
        /\ Dec(report[1].without_rfid)
              = SumF([i \in 1..Len(results) |-> QtyIf(i, FALSE)], 1..Len(results))

\* b is the least number of boxes that hold t labels.
LeastBoxes(b, t) ==
    /\ LabelsPerBox * b >= t
    /\ b > 0 => LabelsPerBox * (b - 1) < t

\* C6: the box estimate of every printed store line and of the Report is
\* the ceiling of the total divided by 60: the least b with 60 * b >= total
\* (0 for 0, 1 for 1..60, 2 for 61).
C6_BoxesAreCeiling ==
    /\ \A n \in 1..Len(printed) :
          /\ LeastBoxes(printed[n].boxes, printed[n].TOTAL)
          /\ printed[n].TOTAL = 0 => printed[n].boxes = 0
          /\ printed[n].TOTAL \in 1..60 => printed[n].boxes = 1
          /\ printed[n].TOTAL = 61 => printed[n].boxes = 2
    /\ report # <<>> =>
          LeastBoxes(Dec(report[1].boxes), Dec(report[1].total_labels))

\* C6 witness: a store line of total 61 with 2 boxes was printed, and the
\* Report of the run has total 61 and 2 boxes as well.
C6_Witness ==
    /\ report # <<>>
    /\ \E n \in 1..Len(printed) : printed[n].TOTAL = 61 /\ printed[n].boxes = 2
    /\ report[1].total_labels = << "6", "1" >>
    /\ report[1].boxes = << "2" >>

\* The per-store totals of a printed line: println! puts without_rfid
\* after "WITH RFID:" and with_rfid after "WITHOUT RFID:".
LineWith(line) == line.WITHOUT_RFID

LineWithout(line) == line.WITH_RFID

\* C7: in the Report returned, num_stores is the number of distinct keys of
\* the filtered rows; each grand total is the sum of the per-store totals of
\* its kind, which are the sums of what the filtered rows of the store
\* contributed (a duplicated row once per copy); total_labels is the sum of
\* the two grand totals, i.e. of all the quantities; an empty filtered
\* sequence gives a Report of zeros, not an error.
C7_ReportTotals ==
    /\ report # <<>> =>
        LET R == report[1]
            N == 1..Len(results)
            L == 1..Len(printed)
        IN  /\ Dec(R.num_stores) = Cardinality({ Key(results[i]) : i \in N })
            /\ Len(printed) = Dec(R.num_stores)
            /\ { printed[n].store : n \in L } = { Key(results[i]) : i \in N }
            /\ Dec(R.with_rfid) = SumF([n \in L |-> LineWith(printed[n])], L)
            /\ Dec(R.without_rfid) = SumF([n \in L |-> LineWithout(printed[n])], L)
            /\ \A n \in L :
                  LET own == { i \in N : Key(results[i]) = printed[n].store }
                  IN  /\ LineWith(printed[n])
                            = SumF([i \in N |-> stores[i].qty_with_rfid], own)
                      /\ LineWithout(printed[n])
                            = SumF([i \in N |-> stores[i].qty_without_rfid], own)
            /\ \A i \in N :
                  stores[i].qty_with_rfid + stores[i].qty_without_rfid
                      = Dec(results[i][9])
            /\ Dec(R.total_labels) = Dec(R.with_rfid) + Dec(R.without_rfid)
            /\ Dec(R.total_labels) = SumF([i \in N |-> Dec(results[i][9])], N)
    /\ (mode = "report" /\ pc = "done" /\ listFile.readable /\ inputFile.readable
            /\ results = <<>>) =>
        /\ outcome = "ok"
        /\ report = << [num_stores |-> << "0" >>, total_labels |-> << "0" >>,
                        with_rfid |-> << "0" >>, without_rfid |-> << "0" >>,
                        boxes |-> << "0" >>] >>

\* C7 witness: a Report over two stores, one of them with a duplicated row,
\* both grand totals positive.
C7_Witness ==
    /\ report # <<>>
    /\ report[1].num_stores = << "2" >>
    /\ report[1].with_rfid # << "0" >>
    /\ report[1].without_rfid # << "0" >>
    /\ \E i \in 1..Len(results) : \E j \in 1..Len(results) :
          i # j /\ results[i] = results[j]

\* Some filtered row has a quantity that is no non-negative integer.
BadQuantity == \E i \in 1..Len(results) : ~IsU32Text(results[i][9])

\* C8: in report mode, when the quantity of a filtered row is no
\* non-negative integer the run ends with an error: no Report, no store
\* line, no totals block; and a run whose files were read fails only for
\* such a row of the filtered sequence, never for one filtered out.
C8_InvalidQuantityFatal ==
    mode = "report" =>
        /\ (Filtered /\ BadQuantity) =>
              /\ report = <<>>
              /\ printed = <<>>
              /\ ~totals_printed
              /\ outcome \in { "running", "err" }
              /\ pc = "done" => outcome = "err"
              /\ pc \in { "aggregate", "done" }
        /\ (pc = "done" /\ listFile.readable /\ inputFile.readable /\ ~BadQuantity) =>
              /\ outcome = "ok"
              /\ report # <<>>

\* C8 witness: the run ended in error on the row of quantity "x" of store
\* X-014 while the filtered rows of store P-S1 all parse.
C8_Witness ==
    /\ mode = "report"
    /\ pc = "done"
    /\ outcome = "err"
    /\ \E i \in 1..Len(results) :
          Key(results[i]) = PO_X014 /\ results[i][9] = << "x" >>
    /\ \E i \in 1..Len(results) :
          Key(results[i]) = PO_PS1 /\ IsU32Text(results[i][9])

\* The stores whose partition write_file completed.
Completed == { created[n] : n \in 1..Len(created) } \ { current[n] : n \in 1..Len(current) }

\* C10 as stated: when creating or writing the file of a partition fails,
\* produce_po_files ends with an error returned to its caller; no file of a
\* partition not yet started exists, and the files of the partitions
\* completed before hold all their records.
C10_WriteFailureReturned ==
    write_result = "err" =>
        /\ outcome = "err"
        /\ \A k \in pending \ { created[n] : n \in 1..Len(created) } :
              (k \o << ".", "c", "s", "v" >>) \notin DOMAIN disk
        /\ \A k \in Completed :
              Len(disk[k \o << ".", "c", "s", "v" >>].rows) = Len(SourceRows(k))

\* The paths the mode of the entry requires and that are not set.
MissingAtEntry ==
    IF entry = "cli" THEN CliMissing(args)
    ELSE { f \in { "input" } : gui_input = <<>> }
         \cup { f \in { "list" } : gui_list = <<>> }
         \cup { f \in { "output" } : entry = "run" /\ gui_output = <<>> }

\* An entry has been taken and is being served or has ended the process:
\* a button was pressed, or the command line was parsed without a conflict
\* of flags.
EntryTaken ==
    \/ entry \in { "run", "reports" }
    \/ entry = "cli" /\ front_pc # "cli" /\ ~CliConflict(args)

\* C9 as stated: in every front end, when a path the mode requires is
\* missing, no pipeline call is made and the rejection names a missing
\* field.
C9_MissingPathRejectedByField ==
    (EntryTaken /\ MissingAtEntry # {}) =>
        /\ call = <<>>
        /\ front_pc = "exit"
        /\ reported # {}
        /\ reported \subseteq MissingAtEntry

(***************************************************************************)
(* list() on its own: every store-list file of up to MaxContent characters *)
(***************************************************************************)
\* The characters of a store-list file: digits, the comma, the two
\* line-break characters, a blank.
ListAlphabet == { "0", "1", ",", NL, CR, " " }

InitList ==
    /\ FrontOff
    /\ FirstRun
    /\ mode = "report"
    /\ print_all = FALSE
    /\ listFile \in
          { [readable |-> TRUE, content |-> c] :
              c \in BoundedSeq(ListAlphabet, MaxContent) }
          \cup { [readable |-> FALSE, content |-> <<>>] }
    /\ inputFile = [readable |-> FALSE, rows |-> <<>>]
    /\ pc = "list"
    /\ store_list = <<>>
    /\ records = <<>>
    /\ results = <<>>
    /\ pending = {}
    /\ current = <<>>
    /\ disk = NoFiles
    /\ created = <<>>
    /\ write_result = "none"
    /\ stores = <<>>
    /\ printed = <<>>
    /\ totals_printed = FALSE
    /\ total_with_rfid = 0
    /\ total_without_rfid = 0
    /\ total_stores = 0
    /\ report = <<>>
    /\ outcome = "running"

NextList ==
    \/ ListStep
    \/ ListPanics

SpecList == InitList /\ [][NextList]_vars

\* list() has returned: `store_list` holds its tokens.
Listed == pc # "list" /\ listFile.readable

\* The positions of the content that belong to no line break: not a "\n",
\* and not a "\r" directly before a "\n".
KeptPositions ==
    LET c == listFile.content
    IN  { i \in 1..Len(c) :
            /\ c[i] # NL
            /\ ~(c[i] = CR /\ i < Len(c) /\ c[i + 1] = NL) }

\* The content without its line breaks.
WithoutLineBreaks ==
    LET c == listFile.content
    IN  [k \in 1..Cardinality(KeptPositions) |->
            c[CHOOSE i \in KeptPositions :
                Cardinality({ j \in KeptPositions : j <= i }) = k]]

\* C11: the tokens list() returns are, in order, the pieces between the
\* commas of the content without its line breaks: joined by commas they give
\* that text back and none holds a comma, so empty and repeated tokens stay,
\* nothing is trimmed, a content without identifier gives the one empty
\* token, a final comma a final empty token, and a line break between two
\* identifiers joins them.
C11_ListTokens ==
    Listed =>
        /\ Len(store_list) >= 1
        /\ JoinComma(store_list) = WithoutLineBreaks
        /\ \A n \in 1..Len(store_list) : \A i \in 1..Len(store_list[n]) :
              store_list[n][i] # ","
        /\ Len(store_list)
              = 1 + Cardinality({ i \in 1..Len(listFile.content) :
                                    listFile.content[i] = "," })
        /\ WithoutLineBreaks = <<>> => store_list = << <<>> >>
        /\ (WithoutLineBreaks # <<>>
              /\ WithoutLineBreaks[Len(WithoutLineBreaks)] = ",")
                => store_list[Len(store_list)] = <<>>

\* C11 witness: the content "0", line break, "1", "," gave the token "01"
\* and a final empty token.
C11_Witness ==
    /\ Listed
    /\ listFile.content = << "0", NL, "1", "," >>
    /\ store_list = << << "0", "1" >>, <<>> >>

(***************************************************************************)
(* Two runs on the same filtered rows                                      *)
(***************************************************************************)
\* The stores in the order the run visited them: the files in creation
\* order (write_file) or the printed store lines in order (produce_report).
VisitOrder ==
    IF mode = "split" THEN created
    ELSE [n \in 1..Len(printed) |-> printed[n].store]

\* write_file or produce_report is run a second time on the filtered rows
\* of the first run, which returned Ok: a new HashSet is collected and
\* iterated, the files of the first run are still on disk.
Rerun ==
    /\ pc = "done"
    /\ outcome = "ok"
    /\ run = 1
    /\ run' = 2
    /\ first_order' = VisitOrder
    /\ pc' = IF mode = "split" THEN "write" ELSE "aggregate"
    /\ pending' = {}
    /\ current' = <<>>
    /\ created' = <<>>
    /\ write_result' = "none"
    /\ stores' = <<>>
    /\ printed' = <<>>
    /\ totals_printed' = FALSE
    /\ total_with_rfid' = 0
    /\ total_without_rfid' = 0
    /\ total_stores' = 0
    /\ report' = <<>>
    /\ outcome' = "running"
    /\ UNCHANGED << frontVars, inputVars, store_list, records, results, disk >>

NextTwoRuns ==
    \/ Next
    \/ Rerun

SpecTwoRuns == Init /\ [][NextTwoRuns]_vars

\* C12 as stated: a second run of write_file or produce_report on the same
\* filtered rows visits the distinct store keys in the order the first run
\* visited them.
C12_SameOrderInBothRuns ==
    (run = 2 /\ pc = "done" /\ outcome = "ok") => VisitOrder = first_order

(***************************************************************************)
(* Round trip from the written files to the report totals                  *)
(***************************************************************************)
\* The two sums the report accumulates for store k over the records rows,
\* or none when the quantity of one of the records is no u32 and the first
\* loop returns the error. Rows for which has_rfid is true are accumulated
\* in qty_without_rfid.
Aggregate(rows, k) ==
    IF \A i \in 1..Len(rows) : QtyParses(rows[i])
    THEN LET ss == [i \in 1..Len(rows) |-> StoreOf(rows[i])]
         IN  << [tagged |-> SumWithout(ss, k), untagged |-> SumWith(ss, k)] >>
    ELSE <<>>

\* No row occurs twice among the filtered rows.
NoDuplicatedRows ==
    \A i, j \in 1..Len(results) : i # j => results[i] # results[j]

\* write_file returned Ok for filtered rows without duplicates.
SplitWritten == write_result = "ok" /\ NoDuplicatedRows

\* The records in the file of store k.
WrittenRows(k) == disk[FileName(k)].rows

\* The rows of store k without the marker, and the sum of their quantities.
UntaggedRows(k) == SelectSeq(SourceRows(k), LAMBDA r : ~Tagged(r))

UntaggedTotal(k) ==
    LET rows == UntaggedRows(k)
    IN  SumF([i \in 1..Len(rows) |-> Dec(rows[i][9])], 1..Len(rows))

\* C13 as stated: aggregating the records written for a store yields the
\* tagged and the untagged total that aggregating the filtered rows of the
\* store yields.
C13_RoundTripSameTotals ==
    SplitWritten =>
        \A k \in StoreSet(results) :
            Aggregate(WrittenRows(k), k) = Aggregate(SourceRows(k), k)

\* C13 amended: with print_all the written records aggregate as the
\* filtered rows of the store do; without it their aggregation fails when
\* an unmarked row of the store has a quantity that is no u32, and else
\* gives the untagged total of the store's rows and a tagged total of 0.
C13_RoundTripUpToZeroedTagged ==
    SplitWritten =>
        \A k \in StoreSet(results) :
            IF print_all
            THEN Aggregate(WrittenRows(k), k) = Aggregate(SourceRows(k), k)
            ELSE IF \A i \in 1..Len(UntaggedRows(k)) :
                        IsU32Text(UntaggedRows(k)[i][9])
                 THEN Aggregate(WrittenRows(k), k)
                          = << [tagged |-> 0, untagged |-> UntaggedTotal(k)] >>
                 ELSE Aggregate(WrittenRows(k), k) = <<>>

\* Without print_all a store with a marked row of 60 and an unmarked row
\* of 1 is written: the rows aggregate to 60 and 1, the records to 0 and 1.
C13_Witness ==
    /\ SplitWritten
    /\ ~print_all
    /\ Aggregate(SourceRows(PO_X014), PO_X014)
          = << [tagged |-> 60, untagged |-> 1] >>
    /\ PO_X014 \in StoreSet(results)
    /\ Aggregate(WrittenRows(PO_X014), PO_X014)
          = << [tagged |-> 0, untagged |-> 1] >>

(***************************************************************************)
(* The three paths of the GUI                                              *)
(***************************************************************************)
\* Each stored path is the argument of the latest put_path of its kind
\* (None before the first): calls of the other kinds leave it alone.
StoredIsLatestOfKind ==
    /\ gui_input = picked["Input"]
    /\ gui_output = picked["Output"]
    /\ gui_list = picked["List"]

\* The field name the message box of "Run" uses for a kind of path.
FieldOf(kind) ==
    IF kind = "Input" THEN "input"
    ELSE IF kind = "Output" THEN "output" ELSE "list"

\* The kinds whose latest put_path carried None after an earlier one had
\* carried a path: the dialog was cancelled over a selection.
CancelledKinds == { kind \in had_path : picked[kind] = <<>> }

\* The first kind, in the order "Run" checks them, whose latest put_path
\* carried no path; "none" when all three carried one.
FirstEmptyKind ==
    IF picked["Input"] = <<>> THEN "Input"
    ELSE IF picked["Output"] = <<>> THEN "Output"
    ELSE IF picked["List"] = <<>> THEN "List" ELSE "none"

\* C14 as stated: each stored path is the latest argument of its kind, and
\* after a cancelled dialog a following "Run" makes no call and reports the
\* cancelled field as empty.
C14_CancelledFieldReported ==
    /\ StoredIsLatestOfKind
    /\ \A kind \in CancelledKinds :
          entry = "run" =>
              /\ call = <<>>
              /\ front_outcome = "panic"
              /\ reported = { FieldOf(kind) }

\* C14 amended: each stored path is the latest argument of its kind; a
\* "Run" with a cancelled or never chosen path makes no call, panics and
\* reports the first empty field in the order input, output, list; a "Run"
\* with three paths calls produce_po_files with the latest of each kind.
C14_FirstEmptyFieldReported ==
    /\ StoredIsLatestOfKind
    /\ (entry = "run" /\ FirstEmptyKind # "none") =>
          /\ call = <<>>
          /\ front_outcome = "panic"
          /\ front_pc = "exit"
          /\ reported = { FieldOf(FirstEmptyKind) }
    /\ (entry = "run" /\ FirstEmptyKind = "none") =>
          call = << PoFilesCall(picked["List"][1], picked["Input"][1],
                                picked["Output"][1], FALSE) >>

\* An output path was chosen and its dialog then cancelled, while the
\* input and list paths stay chosen: "Run" reports the output field.
C14_Witness ==
    /\ entry = "run"
    /\ CancelledKinds = { "Output" }
    /\ { "Input", "List" } \subseteq had_path
    /\ gui_input # <<>>
    /\ gui_list # <<>>
    /\ gui_output = <<>>
    /\ call = <<>>
    /\ reported = { "output" }

====
